---- MODULE Spec2Model ----
(***************************************************************************)
(* A model of pixellock (src/main.go): the AES-256-GCM encrypt/decrypt     *)
(* helpers, the LSB steganography codec and the directory fan-out.         *)
(*                                                                         *)
(* Five state machines share the module:                                   *)
(*   Spec       one Encrypt call followed by one Decrypt call,             *)
(*   SpecNonce  a sequence of Encrypt calls under one key,                 *)
(*   SpecStego  the "stego hide" command followed by "stego reveal",       *)
(*   SpecBatch  encryptDirectory / decryptDirectory with their goroutines  *)
(*              and the output side of the file system,                    *)
(*   SpecCmd    the "encrypt" and "decrypt" Actions up to the call of the  *)
(*              file or directory function.                                *)
(* Each machine leaves the variables of the others at their idle values.   *)
(***************************************************************************)
EXTENDS Integers, Sequences, FiniteSets, TLC

VARIABLES
    key,        \* cipher: the key handed to Encrypt
    plain,      \* cipher: the plaintext handed to Encrypt
    enc,        \* cipher: the outcome of the Encrypt call, once made
    dec,        \* cipher: the outcome of the Decrypt call, once made
    calls,      \* nonce machine: the Encrypt calls made so far, in order
    message,    \* stego: the --message argument
    carrier,    \* stego: the RGBA buffer the input file decodes to
    hidden,     \* stego: the RGBA buffer hideMessage built, once built
    outFile,    \* stego: the output file: absent, partial or a complete PNG
    hideRet,    \* stego: what the hide command returned, once it has
    revealRet,  \* stego: what the reveal command returned, once it has
    stegoLog,   \* stego: the file-system calls made, in order
    mode,       \* batch: "encrypt" or "decrypt"
    recursive,  \* batch: the --recursive flag
    tree,       \* batch: the entries at and under inputDir, in walk order
    walkPos,    \* batch: index of the next entry filepath.Walk visits
    walkErr,    \* batch: the error the walk callback returned, or ""
    workers,    \* batch: per started goroutine (by entry index) its record
    overwrite,  \* batch: the --overwrite flag
    encryptedExt, \* batch: the suffix decryptDirectory selects by
    fs,         \* batch: what each path at or below outputDir holds
    batchRet,   \* batch: what the batch run returned, once it has
    cmd,        \* command: the command line and environment of one command
    cmdRet      \* command: what its Action returned and did, once it has

cipherVars == <<key, plain, enc, dec>>
nonceVars  == <<calls>>
stegoVars  == <<message, carrier, hidden, outFile, hideRet, revealRet, stegoLog>>
batchVars  == <<mode, recursive, tree, walkPos, walkErr, workers, overwrite,
               encryptedExt, fs, batchRet>>
cmdVars    == <<cmd, cmdRet>>
vars       == <<cipherVars, nonceVars, stegoVars, batchVars, cmdVars>>

(***************************************************************************)
(* Bytes                                                                   *)
(***************************************************************************)
Byte == 0..255

Pow2(n) == 2 ^ n

BitAt(b, i) == (b \div Pow2(i)) % 2

RECURSIVE XorBits(_, _, _)
XorBits(a, b, i) ==
    IF i < 0 THEN 0
    ELSE ((BitAt(a, i) + BitAt(b, i)) % 2) * Pow2(i) + XorBits(a, b, i - 1)

Xor8(a, b) == XorBits(a, b, 7)

Range(s) == {s[i] : i \in 1..Len(s)}

RECURSIVE WeightedSum(_, _)
WeightedSum(s, i) ==
    IF i > Len(s) THEN 0 ELSE i * s[i] + WeightedSum(s, i + 1)

(***************************************************************************)
(* Program constants                                                       *)
(***************************************************************************)
KeySize == 32
NonceSize == 12
TagSize == 16
StegoMessageLimit == 1000

(***************************************************************************)
(* Bounds of the model                                                     *)
(***************************************************************************)
NumKeys == 2
NumNonces == 2
MaxPlainLen == 2
MaxCalls == 3
MaxMsgLen == 2
MaxPixels == 4
MaxFiles == 2

(***************************************************************************)
(* The AEAD primitive.  crypto/cipher's GCM is a library; the model keeps  *)
(* its construction: a counter-mode keystream XORed onto the plaintext and *)
(* a TagSize-byte tag that is a keyed polynomial hash of the ciphertext    *)
(* masked by a value that depends on key and nonce.  AES and GHASH over    *)
(* GF(2^128) are replaced by arithmetic modulo the prime 251, which keeps  *)
(* what GCM guarantees structurally: the hash keys are never zero, so a    *)
(* change of one bit of nonce or ciphertext always changes every tag byte. *)
(***************************************************************************)
HashPrime == 251

KeyMix(k) == WeightedSum(k, 1) + 3 * Len(k)

\* the part of the keystream that key k and nonce n determine
StreamSeed(k, n) == KeyMix(k) * 31 + WeightedSum(n, 1) * 17 + 89

\* byte i (from 1) of the keystream with seed s
Keystream(s, i) == (s + i * 101) % 256

\* the hash key of tag byte j for a key with mix km: 1..250, never 0
HashKey(km, j) == 1 + ((km * 7 + j * 37) % (HashPrime - 1))

RECURSIVE PolyHash(_, _, _, _)
PolyHash(h, data, i, acc) ==
    IF i > Len(data) THEN acc
    ELSE PolyHash(h, data, i + 1, (acc * h + data[i] + 1) % HashPrime)

GcmTag(k, n, c) ==
    LET km == KeyMix(k)
        g  == PolyHash(HashKey(km, 0), n \o c, 1, km % HashPrime)
    IN  [j \in 1..TagSize |-> (g * HashKey(km, j) + km * j + 5 * j) % HashPrime]

GcmXor(k, n, data) ==
    LET s == StreamSeed(k, n)
    IN  [i \in 1..Len(data) |-> Xor8(data[i], Keystream(s, i))]

\* aesGCM.Seal(dst, nonce, plaintext, nil): dst || ciphertext || tag
Seal(dst, k, n, plaintext) ==
    LET c == GcmXor(k, n, plaintext)
    IN  dst \o c \o GcmTag(k, n, c)

\* aesGCM.Open(nil, nonce, ciphertext, nil): the plaintext, or errOpen
Open(k, n, body) ==
    IF Len(body) < TagSize
    THEN [ok |-> FALSE, data |-> <<>>]
    ELSE LET c == SubSeq(body, 1, Len(body) - TagSize)
             t == SubSeq(body, Len(body) - TagSize + 1, Len(body))
         IN  IF GcmTag(k, n, c) = t
             THEN [ok |-> TRUE, data |-> GcmXor(k, n, c)]
             ELSE [ok |-> FALSE, data |-> <<>>]

\* aes.NewCipher accepts 16, 24 and 32 byte keys only
CipherKeyOk(k) == Len(k) \in {16, 24, 32}

ErrCipher   == "failed to create cipher"
ErrNonce    == "failed to create nonce"
ErrTooShort == "ciphertext too short"
ErrOpen     == "failed to open GCM"

Result(e, d) == [err |-> e, data |-> d]

(***************************************************************************)
(* Encrypt and Decrypt (src/main.go 58-102).  rnd is what rand.Reader      *)
(* delivers: [ok, bytes].                                                  *)
(***************************************************************************)
EncryptDropsNonce(k, plaintext, rnd) ==
    IF ~CipherKeyOk(k) THEN Result(ErrCipher, <<>>)
    ELSE IF ~rnd.ok THEN Result(ErrNonce, <<>>)
    ELSE Result("", Seal(<<>>, k, rnd.bytes, plaintext))

EncryptZeroNonce(k, plaintext, rnd) ==
    IF ~CipherKeyOk(k) THEN Result(ErrCipher, <<>>)
    ELSE IF ~rnd.ok THEN Result(ErrNonce, <<>>)
    ELSE LET nonce == [i \in 1..NonceSize |-> 0]
         IN  Result("", Seal(nonce, k, nonce, plaintext))

Encrypt(k, plaintext, rnd) ==
    IF ~CipherKeyOk(k) THEN Result(ErrCipher, <<>>)
    ELSE IF ~rnd.ok THEN Result(ErrNonce, <<>>)
    ELSE LET nonce == rnd.bytes
         IN  Result("", Seal(nonce, k, nonce, plaintext))

DecryptKeepsNonce(k, ciphertext) ==
    IF ~CipherKeyOk(k) THEN Result(ErrCipher, <<>>)
    ELSE IF Len(ciphertext) < NonceSize THEN Result(ErrTooShort, <<>>)
    ELSE LET nonce == SubSeq(ciphertext, 1, NonceSize)
             r     == Open(k, nonce, ciphertext)
         IN  IF ~r.ok THEN Result(ErrOpen, <<>>) ELSE Result("", r.data)

DecryptIgnoresOpenError(k, ciphertext) ==
    IF ~CipherKeyOk(k) THEN Result(ErrCipher, <<>>)
    ELSE IF Len(ciphertext) < NonceSize THEN Result(ErrTooShort, <<>>)
    ELSE LET nonce == SubSeq(ciphertext, 1, NonceSize)
             body  == SubSeq(ciphertext, NonceSize + 1, Len(ciphertext))
         IN  Result("", Open(k, nonce, body).data)

DecryptNeedsTag(k, ciphertext) ==
    IF ~CipherKeyOk(k) THEN Result(ErrCipher, <<>>)
    ELSE IF Len(ciphertext) < NonceSize + TagSize THEN Result(ErrTooShort, <<>>)
    ELSE LET nonce == SubSeq(ciphertext, 1, NonceSize)
             body  == SubSeq(ciphertext, NonceSize + 1, Len(ciphertext))
             r     == Open(k, nonce, body)
         IN  IF ~r.ok THEN Result(ErrOpen, <<>>) ELSE Result("", r.data)

Decrypt(k, ciphertext) ==
    IF ~CipherKeyOk(k) THEN Result(ErrCipher, <<>>)
    ELSE IF Len(ciphertext) < NonceSize THEN Result(ErrTooShort, <<>>)
    ELSE LET nonce == SubSeq(ciphertext, 1, NonceSize)
             body  == SubSeq(ciphertext, NonceSize + 1, Len(ciphertext))
             r     == Open(k, nonce, body)
         IN  IF ~r.ok THEN Result(ErrOpen, <<>>) ELSE Result("", r.data)

(***************************************************************************)
(* Inputs of the cipher machines                                           *)
(***************************************************************************)
\* key number 0 is 0x00 x 32; the others differ from it in every byte
KeyOf(kn) == [i \in 1..KeySize |-> (kn * (i + 6)) % 256]

ValidKeys == {KeyOf(kn) : kn \in 0..(NumKeys - 1)}

\* a key one byte short, which aes.NewCipher refuses
ShortKey == [i \in 1..(KeySize - 1) |-> 0]

Keys == ValidKeys \cup {ShortKey}

NonceOf(nn) == [i \in 1..NonceSize |-> (nn * 16 + i) % 256]

Nonces == {NonceOf(nn) : nn \in 0..(NumNonces - 1)}

\* what rand.Reader can deliver: NonceSize bytes, or a read error
RandOutcomes ==
    {[ok |-> TRUE, bytes |-> n] : n \in Nonces} \cup {[ok |-> FALSE, bytes |-> <<>>]}

PlainBytes == {65, 66}

SeqsUpTo(S, n) == UNION {[1..m -> S] : m \in 0..n}

Plaintexts == SeqsUpTo(PlainBytes, MaxPlainLen)

\* the payloads of the nonce machine: the empty one and "AB"
RepeatedPlaintexts == {<<>>, <<65, 66>>}

FlipBit(b, pos) ==
    LET i   == (pos \div 8) + 1
        bit == pos % 8
    IN  [b EXCEPT ![i] = IF BitAt(b[i], bit) = 1 THEN b[i] - Pow2(bit) ELSE b[i] + Pow2(bit)]

\* what may happen to a blob between Encrypt and Decrypt
Tampers(b) ==
    {[kind |-> "none", pos |-> 0]}
    \cup {[kind |-> "flip", pos |-> p] : p \in 0..(8 * Len(b) - 1)}
    \cup {[kind |-> "cut", pos |-> p] : p \in 0..(Len(b) - 1)}

Tampered(b, t) ==
    CASE t.kind = "none" -> b
      [] t.kind = "flip" -> FlipBit(b, t.pos)
      [] t.kind = "cut"  -> SubSeq(b, 1, t.pos)

(***************************************************************************)
(* The key the encrypt and decrypt commands take (src/main.go 261-316 and  *)
(* 482-492).  A key text is a sequence of characters.                      *)
(***************************************************************************)
\* encoding/base64: the standard alphabet, value v at position v + 1
StdAlphabet ==
    << "A", "B", "C", "D", "E", "F", "G", "H", "I", "J", "K", "L", "M",
       "N", "O", "P", "Q", "R", "S", "T", "U", "V", "W", "X", "Y", "Z",
       "a", "b", "c", "d", "e", "f", "g", "h", "i", "j", "k", "l", "m",
       "n", "o", "p", "q", "r", "s", "t", "u", "v", "w", "x", "y", "z",
       "0", "1", "2", "3", "4", "5", "6", "7", "8", "9", "+", "/" >>

\* the decode map: the value of a character, -1 outside the alphabet
StdValue(ch) ==
    IF \E v \in 1..Len(StdAlphabet) : StdAlphabet[v] = ch
    THEN (CHOOSE v \in 1..Len(StdAlphabet) : StdAlphabet[v] = ch) - 1
    ELSE -1

\* byte j (from 0) of the bits the 6-bit values of s spell
SextetsByte(s, j) ==
    LET q == (8 * j) \div 6 + 1
        r == (8 * j) % 6
    IN  CASE r = 0 -> s[q] * 4 + s[q + 1] \div 16
          [] r = 2 -> (s[q] % 16) * 16 + s[q + 1] \div 4
          [] r = 4 -> (s[q] % 4) * 64 + s[q + 1]

\* base64.StdEncoding.DecodeString: line breaks are dropped, the rest is
\* quanta of four characters, the last one padded with one or two "=";
\* the bits left over in a padded quantum are not examined
DecodeString(text) ==
    LET NotBreak(ch) == ch \notin {"\n", "\r"}
        t    == SelectSeq(text, NotBreak)
        n    == Len(t)
        pad  == IF n >= 2 /\ t[n] = "="
                THEN (IF t[n - 1] = "=" THEN 2 ELSE 1)
                ELSE 0
        body == SubSeq(t, 1, n - pad)
    IN  IF n % 4 # 0 \/ \E i \in 1..Len(body) : StdValue(body[i]) < 0
        THEN Result("illegal base64 data", <<>>)
        ELSE LET s == [i \in 1..Len(body) |-> StdValue(body[i])]
             IN  Result("", [j \in 1..((n \div 4) * 3 - pad) |-> SextetsByte(s, j - 1)])

\* the length test of the commands (309, 489)
KeySizeOkForAes(k) == Len(k) \in {KeySize \div 2, (3 * KeySize) \div 4, KeySize}

KeySizeOk(k) == Len(k) = KeySize

\* what a command returns and has done when it hands over to the file or
\* directory function: the file-system calls made so far, in order
CmdResult(e, k, log) == [made |-> TRUE, err |-> e, key |-> k, log |-> log]

\* the end of both Actions (318-331, 494-507): os.Stat(inputPath), then the
\* directory or the single-file function with the key
Dispatch(name, input, k) ==
    IF input = "missing" THEN CmdResult("failed to stat input path", <<>>, <<"stat input">>)
    ELSE CmdResult("", k, <<"stat input", name \o (IF input = "dir" THEN "Directory" ELSE "File")>>)

\* the caller's key text checked and decoded (303-312, 483-492), then the
\* end of the Action
WithKeyText(name, text, input) ==
    LET d == DecodeString(text)
    IN  IF d.err # "" THEN CmdResult(d.err, <<>>, <<>>)
        ELSE IF ~KeySizeOk(d.data) THEN CmdResult("invalid key size", <<>>, <<>>)
        ELSE Dispatch(name, input, d.data)

\* the Action of "encrypt" (252-332); gen is what GenerateRandomKey
\* returns and saved whether the key file could be written
encryptAction(c, gen, saved) ==
    LET keyBase64 == IF c.keyFlag = <<>> THEN c.keyEnv ELSE c.keyFlag
    IN  IF keyBase64 = <<>>
        THEN IF ~gen.ok THEN CmdResult("failed to generate key", <<>>, <<>>)
             ELSE IF c.keyFile /\ ~saved THEN CmdResult("failed to save key to file", <<>>, <<"write keyfile">>)
             ELSE LET r == Dispatch("encrypt", c.input, gen.key)
                  IN  IF c.keyFile THEN [r EXCEPT !.log = <<"write keyfile">> \o r.log] ELSE r
        ELSE WithKeyText("encrypt", keyBase64, c.input)

\* the Action of "decrypt" (473-508)
decryptAction(c) == WithKeyText("decrypt", c.keyFlag, c.input)

Rep(ch, n) == [i \in 1..n |-> ch]

\* the length of the base64 text of n bytes
EncodedLen(n) == 4 * ((n + 2) \div 3)

\* key texts: none; two that decode to KeySize bytes; one with a line break
\* after it; texts of KeySize - 1, KeySize + 1 and KeySize / 2 bytes; one
\* with a character outside the alphabet, one cut short, one with the
\* padding in front
KeyTexts ==
    LET n == EncodedLen(KeySize)
    IN  { <<>>,
          Rep("A", n - 1) \o <<"=">>,
          Rep("/", n - 1) \o <<"=">>,
          Rep("A", n - 1) \o <<"=", "\n">>,
          Rep("A", n - 2) \o <<"=", "=">>,
          Rep("A", n),
          Rep("A", EncodedLen(KeySize \div 2) - 2) \o <<"=", "=">>,
          Rep("A", n - 1) \o <<"!">>,
          Rep("A", n - 1),
          <<"=">> \o Rep("A", n - 1) }

KeyGenOutcomes == {[ok |-> TRUE, key |-> k] : k \in ValidKeys} \cup {[ok |-> FALSE, key |-> <<>>]}

Commands ==
    [name : {"encrypt", "decrypt"}, keyFlag : KeyTexts,
     keyEnv : {<<>>, Rep("B", EncodedLen(KeySize) - 1) \o <<"=">>, Rep("B", EncodedLen(KeySize))},
     keyFile : BOOLEAN, input : {"missing", "file", "dir"}]

(***************************************************************************)
(* Idle values                                                             *)
(***************************************************************************)
NoEnc == [made |-> FALSE, res |-> Result("", <<>>), rnd |-> [ok |-> FALSE, bytes |-> <<>>]]
NoDec ==
    [made |-> FALSE, key |-> <<>>, tamper |-> [kind |-> "none", pos |-> 0],
     blob |-> <<>>, res |-> Result("", <<>>)]

CipherIdle == key = <<>> /\ plain = <<>> /\ enc = NoEnc /\ dec = NoDec
NonceIdle  == calls = <<>>
NoImage  == [w |-> 0, h |-> 0, px |-> <<>>]
NoHidden == [made |-> FALSE, img |-> NoImage]
NoFile   == [exists |-> FALSE, complete |-> FALSE, alpha |-> FALSE, img |-> NoImage]
NoHide   == [made |-> FALSE, err |-> ""]
NoReveal == [made |-> FALSE, err |-> "", text |-> <<>>]

StegoIdle  ==
    /\ message = <<>> /\ carrier = NoImage /\ hidden = NoHidden /\ outFile = NoFile
    /\ hideRet = NoHide /\ revealRet = NoReveal /\ stegoLog = <<>>
NoBatchRet == [made |-> FALSE, err |-> ""]

NoCmdRet == [made |-> FALSE, err |-> "", key |-> <<>>, log |-> <<>>]

CmdIdle    ==
    /\ cmd = [name |-> "", keyFlag |-> <<>>, keyEnv |-> <<>>, keyFile |-> FALSE, input |-> ""]
    /\ cmdRet = NoCmdRet

BatchIdle  ==
    /\ mode = "" /\ recursive = FALSE /\ tree = <<>> /\ walkPos = 0 /\ walkErr = ""
    /\ workers = <<>> /\ batchRet = NoBatchRet
    /\ overwrite = FALSE /\ encryptedExt = <<>> /\ fs = <<>>

(***************************************************************************)
(* Spec: one Encrypt call, then one Decrypt call on the blob, possibly     *)
(* tampered with, possibly under another key.                              *)
(***************************************************************************)
Init ==
    /\ key \in Keys
    /\ plain \in Plaintexts
    /\ enc = NoEnc
    /\ dec = NoDec
    /\ NonceIdle /\ StegoIdle /\ BatchIdle /\ CmdIdle

EncryptCall ==
    /\ ~enc.made
    /\ \E rnd \in RandOutcomes :
         enc' = [made |-> TRUE, res |-> Encrypt(key, plain, rnd), rnd |-> rnd]
    /\ UNCHANGED <<key, plain, dec, nonceVars, stegoVars, batchVars, cmdVars>>

DecryptCall ==
    /\ enc.made
    /\ enc.res.err = ""
    /\ ~dec.made
    /\ \E k2 \in ValidKeys, t \in Tampers(enc.res.data) :
         LET b == Tampered(enc.res.data, t)
         IN  dec' = [made |-> TRUE, key |-> k2, tamper |-> t, blob |-> b, res |-> Decrypt(k2, b)]
    /\ UNCHANGED <<key, plain, enc, nonceVars, stegoVars, batchVars, cmdVars>>

Next == EncryptCall \/ DecryptCall

Spec == Init /\ [][Next]_vars

(***************************************************************************)
(* Claims about Encrypt and Decrypt, checked under Spec                    *)
(***************************************************************************)
AuthFailure == Result(ErrOpen, <<>>)

\* C1: for every 32-byte key and every payload, the empty one included,
\* Decrypt under the same key of the untouched blob Encrypt returned succeeds
\* and returns exactly the payload.
C1_RoundTrip ==
    (dec.made /\ dec.tamper.kind = "none" /\ dec.key = key /\ Len(key) = KeySize)
        => dec.res = Result("", plain)

C1_Witness ==
    /\ dec.made /\ dec.tamper.kind = "none" /\ dec.key = key /\ Len(key) = KeySize
    /\ Len(plain) = MaxPlainLen
    /\ dec.res.data = plain

\* C2: a blob with any single bit flipped (nonce, body or tag) is refused by
\* Decrypt under the encrypting key with the authentication failure, and no
\* plaintext comes back.
C2_TamperDetected ==
    (dec.made /\ dec.tamper.kind = "flip" /\ dec.key = key)
        => dec.res = AuthFailure

C2_Witness ==
    /\ dec.made /\ dec.tamper.kind = "flip" /\ dec.key = key
    /\ dec.tamper.pos = 8 * NonceSize
    /\ Len(plain) > 0
    /\ dec.res.err = ErrOpen

\* C3: the untouched blob under any other 32-byte key is refused with the very
\* outcome a corrupted blob gets under the right key, and no plaintext comes
\* back.
C3_WrongKeyRefused ==
    (dec.made /\ dec.tamper.kind = "none" /\ dec.key # key /\ Len(dec.key) = KeySize)
        => /\ dec.res = AuthFailure
           /\ dec.res = Decrypt(key, FlipBit(enc.res.data, 0))

C3_Witness ==
    /\ dec.made /\ dec.tamper.kind = "none" /\ dec.key # key
    /\ Len(dec.key) = KeySize
    /\ dec.res.err = ErrOpen

\* C5: a blob Encrypt returns is nonce || ciphertext || tag with no header: it
\* starts with the NonceSize bytes drawn by that call and is
\* len(plaintext) + NonceSize + TagSize bytes long, so never under 28.
C5_BlobLayout ==
    (enc.made /\ enc.res.err = "")
        => /\ Len(enc.res.data) = Len(plain) + NonceSize + TagSize
           /\ Len(enc.res.data) >= 28
           /\ SubSeq(enc.res.data, 1, NonceSize) = enc.rnd.bytes

C5_Witness ==
    /\ enc.made /\ enc.res.err = ""
    /\ Len(plain) = MaxPlainLen
    /\ Len(enc.res.data) = MaxPlainLen + 28

\* C6: Decrypt answers "ciphertext too short" exactly for blobs under
\* NonceSize bytes; a longer blob is split after NonceSize bytes and gets the
\* verdict of the tag check (a body shorter than a tag fails that check).
C6_TooShort ==
    (dec.made /\ Len(dec.key) = KeySize)
        => /\ (dec.res.err = ErrTooShort) <=> (Len(dec.blob) < NonceSize)
           /\ Len(dec.blob) >= NonceSize =>
                 LET r == Open(dec.key, SubSeq(dec.blob, 1, NonceSize),
                               SubSeq(dec.blob, NonceSize + 1, Len(dec.blob)))
                 IN  /\ dec.res.err = (IF r.ok THEN "" ELSE ErrOpen)
                     /\ dec.res.data = r.data
           /\ (Len(dec.blob) >= NonceSize /\ Len(dec.blob) < NonceSize + TagSize)
                 => dec.res = AuthFailure

C6_Witness ==
    /\ dec.made /\ Len(dec.key) = KeySize
    /\ dec.tamper.kind = "cut"
    /\ Len(dec.blob) = NonceSize
    /\ dec.res.err = ErrOpen

C6_WitnessShort ==
    /\ dec.made /\ Len(dec.key) = KeySize
    /\ Len(dec.blob) = NonceSize - 1
    /\ dec.res.err = ErrTooShort

(***************************************************************************)
(* SpecNonce: a sequence of Encrypt calls under one key.  Each call draws  *)
(* from rand.Reader; nothing in Encrypt looks at earlier calls.            *)
(***************************************************************************)
InitNonce ==
    /\ key \in ValidKeys
    /\ plain = <<>> /\ enc = NoEnc /\ dec = NoDec
    /\ calls = <<>>
    /\ StegoIdle /\ BatchIdle /\ CmdIdle

EncryptAgain ==
    /\ Len(calls) < MaxCalls
    /\ \E p \in RepeatedPlaintexts, rnd \in RandOutcomes :
         calls' = Append(calls, [plain |-> p, rnd |-> rnd, res |-> Encrypt(key, p, rnd)])
    /\ UNCHANGED <<cipherVars, stegoVars, batchVars, cmdVars>>

NextNonce == EncryptAgain

SpecNonce == InitNonce /\ [][NextNonce]_vars

Succeeded(i) == calls[i].res.err = ""

NonceUsed(i) == SubSeq(calls[i].res.data, 1, NonceSize)

\* C4 as claimed: no two Encrypt calls under one key use the same nonce, and
\* the same plaintext encrypted twice gives two different blobs.
C4_NonceNeverReused ==
    \A i, j \in 1..Len(calls) :
        (i < j /\ Succeeded(i) /\ Succeeded(j))
            => /\ NonceUsed(i) # NonceUsed(j)
               /\ calls[i].plain = calls[j].plain => calls[i].res.data # calls[j].res.data

\* C4 as amended: the nonce of a call is exactly what rand.Reader delivered to
\* that call, so two calls under one key share a nonce only when the random
\* source repeats itself; two calls whose draws differ give different blobs,
\* and the same plaintext under a repeated draw gives the same blob.
C4_NonceIsTheDraw ==
    \A i, j \in 1..Len(calls) :
        (i < j /\ Succeeded(i) /\ Succeeded(j))
            => /\ NonceUsed(i) = calls[i].rnd.bytes
               /\ NonceUsed(j) = calls[j].rnd.bytes
               /\ calls[i].rnd.bytes # calls[j].rnd.bytes
                    => calls[i].res.data # calls[j].res.data
               /\ (calls[i].rnd.bytes = calls[j].rnd.bytes /\ calls[i].plain = calls[j].plain)
                    => calls[i].res.data = calls[j].res.data

C4_Witness ==
    \E i, j \in 1..Len(calls) :
        /\ i < j /\ Succeeded(i) /\ Succeeded(j)
        /\ calls[i].plain = calls[j].plain
        /\ calls[i].rnd.bytes # calls[j].rnd.bytes
        /\ calls[i].res.data # calls[j].res.data

(***************************************************************************)
(* Steganography (src/main.go 671-787).  An image is its width, height and *)
(* a pixel per (y, x); a pixel is four 8-bit channels as image.RGBA holds  *)
(* them.                                                                   *)
(***************************************************************************)
Pixel(r, g, b, a) == [r |-> r, g |-> g, b |-> b, a |-> a]

At(img, x, y) == img.px[<<y, x>>]

SetRGBA(img, x, y, c) == [img EXCEPT !.px[<<y, x>>] = c]

\* color.RGBA.RGBA(): each 8-bit channel widened to 16 bits
Wide(c) == c * 257

\* v &^ 1
ClearLow(v) == v - (v % 2)

\* uint8(v)
U8(v) == v % 256

\* the body of the hide loop for one pixel p and message byte c (735-739)
EmbedReversed(p, c) ==
    Pixel(U8(ClearLow(Wide(p.r)) + ((c \div 16) % 2)),
          U8(ClearLow(Wide(p.g)) + ((c \div 32) % 2)),
          U8(ClearLow(Wide(p.b)) + ((c \div 64) % 2)),
          U8(ClearLow(Wide(p.a)) + (c \div 128)))

Embed(p, c) ==
    Pixel(U8(ClearLow(Wide(p.r)) + (c \div 128)),
          U8(ClearLow(Wide(p.g)) + ((c \div 64) % 2)),
          U8(ClearLow(Wide(p.b)) + ((c \div 32) % 2)),
          U8(ClearLow(Wide(p.a)) + ((c \div 16) % 2)))

\* the loops of hideMessage (729-743); m is the message with its NUL
RECURSIVE HideLoop(_, _, _, _, _)
HideLoop(img, m, y, x, messageIndex) ==
    IF y >= img.h THEN img
    ELSE IF x >= img.w THEN HideLoop(img, m, y + 1, 0, messageIndex)
    ELSE IF messageIndex < Len(m)
         THEN HideLoop(SetRGBA(img, x, y, Embed(At(img, x, y), m[messageIndex + 1])),
                       m, y, x + 1, messageIndex + 1)
         ELSE HideLoop(img, m, y, x + 1, messageIndex)

\* hide on a buffer: append the NUL, run the loops (727-743)
HideBufferTwoNuls(img, msg) == HideLoop(img, msg \o <<0, 0>>, 0, 0, 0)

HideBuffer(img, msg) == HideLoop(img, msg \o <<0>>, 0, 0, 0)

\* the byte revealMessage rebuilds from one pixel (779-780)
ExtractLowNibble(p) ==
    (Wide(p.r) % 2) * 8 + (Wide(p.g) % 2) * 4 + (Wide(p.b) % 2) * 2 + (Wide(p.a) % 2)

Extract(p) ==
    (Wide(p.r) % 2) * 128 + (Wide(p.g) % 2) * 64 + (Wide(p.b) % 2) * 32 + (Wide(p.a) % 2) * 16

\* the loops of revealMessage (776-783)
RECURSIVE RevealLoop(_, _, _, _)
RevealLoop(img, y, x, messageBits) ==
    IF y >= img.h THEN messageBits
    ELSE IF x >= img.w THEN RevealLoop(img, y + 1, 0, messageBits)
    ELSE RevealLoop(img, y, x + 1, Append(messageBits, Extract(At(img, x, y))))

\* strings.Split(message, "\x00")[0]
RECURSIVE BeforeNul(_, _)
BeforeNul(bytes, i) ==
    IF i > Len(bytes) \/ bytes[i] = 0 THEN SubSeq(bytes, 1, i - 1)
    ELSE BeforeNul(bytes, i + 1)

\* reveal on a buffer (776-786)
RevealBufferUncut(img) == RevealLoop(img, 0, 0, <<>>)

RevealBuffer(img) == BeforeNul(RevealLoop(img, 0, 0, <<>>), 1)

(***************************************************************************)
(* The PNG file between the two commands.  png.Encode of an image.RGBA     *)
(* writes RGB when every alpha is 255, else converts each pixel to         *)
(* non-premultiplied NRGBA; LoadImage followed by draw.Draw brings the     *)
(* file back to premultiplied RGBA.  Only the default output format, png,  *)
(* is modelled.                                                            *)
(***************************************************************************)
Opaque(img) == \A q \in DOMAIN img.px : img.px[q].a = 255

\* one channel c under alpha a: (Wide(c) * 0xffff / Wide(a)) >> 8 as uint8;
\* the factor 257 of both Wide values cancels in the integer division
UnpremultiplyChannel(c, a) == U8(((c * 65535) \div a) \div 256)

\* color.NRGBAModel.Convert of a premultiplied pixel
Unpremultiply(p) ==
    IF p.a = 255 THEN p
    ELSE IF p.a = 0 THEN Pixel(0, 0, 0, 0)
    ELSE Pixel(UnpremultiplyChannel(p.r, p.a),
               UnpremultiplyChannel(p.g, p.a),
               UnpremultiplyChannel(p.b, p.a),
               p.a)

\* draw.Draw of an NRGBA pixel into an image.RGBA with draw.Src
Premultiply(p) ==
    Pixel(U8(((p.r * Wide(p.a)) \div 255) \div 256),
          U8(((p.g * Wide(p.a)) \div 255) \div 256),
          U8(((p.b * Wide(p.a)) \div 255) \div 256),
          p.a)

\* png.Encode(f, rgbaImg): the file SaveImage leaves when nothing fails
PngEncode(img) ==
    IF Opaque(img)
    THEN [exists |-> TRUE, complete |-> TRUE, alpha |-> FALSE, img |-> img]
    ELSE [exists |-> TRUE, complete |-> TRUE, alpha |-> TRUE,
          img |-> [img EXCEPT !.px = [q \in DOMAIN img.px |-> Unpremultiply(img.px[q])]]]

\* os.Create succeeded and png.Encode did not: an empty or cut-off file
PartialFile == [exists |-> TRUE, complete |-> FALSE, alpha |-> FALSE, img |-> NoImage]

\* LoadImage of a complete PNG, then the conversion to image.RGBA
PngToRGBA(file) ==
    IF file.alpha
    THEN [file.img EXCEPT !.px = [q \in DOMAIN file.img.px |-> Premultiply(file.img.px[q])]]
    ELSE file.img

ErrTooLong == "message too long"
ErrLoad    == "failed to load image"
ErrMkdir   == "failed to create output directory"
ErrSave    == "failed to encode stego image"

\* the file-system calls of hideMessage, in order; it makes the first n
HideCalls == <<"hide: open input", "hide: mkdir output", "hide: create output">>

HideLog(n) == SubSeq(HideCalls, 1, n)

\* what the file system may do to one hide command
HideFaults == {"none", "open", "decode", "mkdir", "create", "encode"}

\* hideMessage (713-758) on the decoded input img; the outcome is the error
\* returned, the buffer built, the output file and the file-system calls
hideMessage(img, msg, fault) ==
    IF fault \in {"open", "decode"}
    THEN [err |-> ErrLoad, hidden |-> NoHidden, file |-> NoFile, log |-> HideLog(1)]
    ELSE LET rgbaImg == HideBuffer(img, msg)
             built   == [made |-> TRUE, img |-> rgbaImg]
         IN  IF fault = "mkdir"
             THEN [err |-> ErrMkdir, hidden |-> built, file |-> NoFile,
                   log |-> HideLog(2)]
             ELSE IF fault = "create"
             THEN [err |-> ErrSave, hidden |-> built, file |-> NoFile,
                   log |-> HideLog(3)]
             ELSE IF fault = "encode"
             THEN [err |-> ErrSave, hidden |-> built, file |-> PartialFile,
                   log |-> HideLog(3)]
             ELSE [err |-> "", hidden |-> built, file |-> PngEncode(rgbaImg),
                   log |-> HideLog(3)]

\* the length test of the hide command (677)
MessageTooLongInclusive(msg) == Len(msg) >= StegoMessageLimit

MessageTooLong(msg) == Len(msg) > StegoMessageLimit

(***************************************************************************)
(* Inputs of the stego machine                                             *)
(***************************************************************************)
\* "A", a byte under 16, a multiple of 16 with the high bit set
MsgBytes == {65, 5, 176}

ShortMessages == SeqsUpTo(MsgBytes, MaxMsgLen)

\* messages around the limit: one under, exactly at, one over
LongMessages == {[i \in 1..n |-> 65] : n \in (StegoMessageLimit - 1)..(StegoMessageLimit + 1)}

Messages == ShortMessages \cup LongMessages

\* opaque red, as the test image has it, and a translucent colour
Palette == {Pixel(255, 0, 0, 255), Pixel(100, 50, 25, 128)}

Sizes == {s \in (1..MaxPixels) \X (1..MaxPixels) : s[1] * s[2] <= MaxPixels}

Carriers ==
    UNION {{[w |-> s[1], h |-> s[2], px |-> f] :
               f \in [(0..(s[2] - 1)) \X (0..(s[1] - 1)) -> Palette]} : s \in Sizes}

(***************************************************************************)
(* SpecStego: "stego hide" once, then "stego reveal" on the input or on    *)
(* the output file.                                                        *)
(***************************************************************************)
InitStego ==
    /\ CipherIdle /\ NonceIdle /\ BatchIdle /\ CmdIdle
    /\ message \in Messages
    /\ carrier \in Carriers
    /\ hidden = NoHidden
    /\ outFile = NoFile
    /\ hideRet = NoHide
    /\ revealRet = NoReveal
    /\ stegoLog = <<>>

\* the Action of "stego hide" (671-683)
HideCmd ==
    /\ ~hideRet.made
    /\ IF MessageTooLong(message)
       THEN /\ hideRet' = [made |-> TRUE, err |-> ErrTooLong]
            /\ UNCHANGED <<hidden, outFile, stegoLog>>
       ELSE \E fault \in HideFaults :
              LET o == hideMessage(carrier, message, fault)
              IN  /\ hideRet' = [made |-> TRUE, err |-> o.err]
                  /\ hidden' = o.hidden
                  /\ outFile' = o.file
                  /\ stegoLog' = stegoLog \o o.log
    /\ UNCHANGED <<message, carrier, revealRet, cipherVars, nonceVars, batchVars, cmdVars>>

\* the Action of "stego reveal" (697-706) with revealMessage (761-787)
RevealCmd ==
    /\ hideRet.made
    /\ ~revealRet.made
    /\ \E src \in {"input", "output"} :
         /\ stegoLog' = Append(stegoLog, "reveal: open " \o src)
         /\ IF src = "input"
            THEN revealRet' = [made |-> TRUE, err |-> "", text |-> RevealBuffer(carrier)]
            ELSE IF outFile.exists /\ outFile.complete
            THEN revealRet' = [made |-> TRUE, err |-> "",
                               text |-> RevealBuffer(PngToRGBA(outFile))]
            ELSE revealRet' = [made |-> TRUE, err |-> ErrLoad, text |-> <<>>]
    /\ UNCHANGED <<message, carrier, hidden, outFile, hideRet,
                   cipherVars, nonceVars, batchVars, cmdVars>>

NextStego == HideCmd \/ RevealCmd

SpecStego == InitStego /\ [][NextStego]_vars

Fits == carrier.w * carrier.h >= Len(message) + 1

\* C7 as claimed: for a message of at most 1000 bytes and a buffer of at least
\* len(M)+1 pixels, revealing the buffer hide built returns exactly M.
C7_StegoRoundTrip ==
    (hidden.made /\ Len(message) <= StegoMessageLimit /\ Fits)
        => RevealBuffer(hidden.img) = message

\* C8 as claimed: hide on a buffer of fewer than len(M)+1 pixels fails and
\* leaves no output: no buffer is built and no output file is written.
C8_CapacityRejected ==
    (hideRet.made /\ Len(message) <= StegoMessageLimit /\ ~Fits)
        => /\ hideRet.err # ""
           /\ ~outFile.exists
           /\ ~hidden.made

\* C9: the hide command answers "message too long" exactly when the message
\* as given, before the NUL is appended, is longer than 1000; a message of
\* exactly 1000 goes on to hideMessage; on rejection no file is opened,
\* created or written.
C9_MessageTooLong ==
    hideRet.made
        => /\ (hideRet.err = ErrTooLong) <=> (Len(message) > StegoMessageLimit)
           /\ hideRet.err = ErrTooLong
                => /\ \A i \in 1..Len(stegoLog) : stegoLog[i] \notin Range(HideCalls)
                   /\ ~outFile.exists
                   /\ ~hidden.made
           /\ Len(message) = StegoMessageLimit
                => (stegoLog # <<>> /\ stegoLog[1] = HideCalls[1])

C9_Witness ==
    /\ hideRet.made
    /\ Len(message) = StegoMessageLimit
    /\ hideRet.err = ""
    /\ outFile.complete

C9_WitnessRejected ==
    /\ hideRet.made
    /\ Len(message) = StegoMessageLimit + 1
    /\ hideRet.err = ErrTooLong

(***************************************************************************)
(* The directory fan-out (src/main.go 381-423 and 556-596).  Names are     *)
(* sequences of characters, a path is the sequence of names below          *)
(* inputDir (the empty path is inputDir itself).                           *)
(***************************************************************************)
EncryptedExtension == <<".", "e", "n", "c">>

\* strings.HasSuffix
HasSuffix(str, suffix) ==
    /\ Len(str) >= Len(suffix)
    /\ SubSeq(str, Len(str) - Len(suffix) + 1, Len(str)) = suffix

\* info.Name(): the last name of the path
BaseName(path) == path[Len(path)]

IsPrefix(p, q) == Len(p) <= Len(q) /\ SubSeq(q, 1, Len(p)) = p

Dir(path)  == [path |-> path, isDir |-> TRUE,  image |-> FALSE, bad |-> FALSE]
File(path) == [path |-> path, isDir |-> FALSE, image |-> FALSE, bad |-> FALSE]

\* the entries a tree may hold, in the lexical order filepath.Walk visits
\* them: inputDir, ".enc", "a.png", "x", "x/.enc", "x.enc"
Universe ==
    << Dir(<<>>),
       File(<<EncryptedExtension>>),
       File(<< <<"a", ".", "p", "n", "g">> >>),
       Dir(<< <<"x">> >>),
       File(<< <<"x">>, EncryptedExtension >>),
       File(<< <<"x">> \o EncryptedExtension >>) >>

FileSlots == {i \in 1..Len(Universe) : ~Universe[i].isDir}

\* the tree with the files of `present`, those of `images` holding an image,
\* and the entry at position `badAt` (none for 0) unreadable
TreeOf(present, images, badAt) ==
    LET Keep(i) == Universe[i].isDir \/ i \in present
        kept    == SelectSeq([i \in 1..Len(Universe) |-> i], Keep)
    IN  [n \in 1..Len(kept) |->
            [Universe[kept[n]] EXCEPT !.image = kept[n] \in images,
                                      !.bad = (n = badAt)]]

Trees ==
    {TreeOf(present, images, badAt) :
        present \in {P \in SUBSET FileSlots : Cardinality(P) <= MaxFiles},
        images \in SUBSET FileSlots,
        badAt \in 0..Len(Universe)}

\* isImageFile (181-201): the content decodes as a supported image
isImageFile(e) == e.image

\* whether the walk callback starts a goroutine for entry e (392-393, 567)
QualifiesByContent(e) == ~e.isDir /\ isImageFile(e)

Qualifies(e) ==
    /\ ~e.isDir
    /\ IF mode = "encrypt" THEN isImageFile(e)
       ELSE HasSuffix(BaseName(e.path), encryptedExt)

\* the position after the entries below directory entry i (filepath.SkipDir)
RECURSIVE AfterSubtree(_, _)
AfterSubtree(i, j) ==
    IF j <= Len(tree) /\ IsPrefix(tree[i].path, tree[j].path) /\ Len(tree[j].path) > Len(tree[i].path)
    THEN AfterSubtree(i, j + 1)
    ELSE j

\* filepath.Rel(inputDir, path) as text: the names joined by the separator
RECURSIVE RelText(_)
RelText(path) ==
    IF Len(path) = 0 THEN <<>>
    ELSE IF Len(path) = 1 THEN path[1]
    ELSE path[1] \o <<"/">> \o RelText(Tail(path))

\* strings.TrimSuffix
TrimSuffix(str, suffix) ==
    IF HasSuffix(str, suffix) THEN SubSeq(str, 1, Len(str) - Len(suffix)) ELSE str

\* the names of a path text, cut at the separators; empty names are kept
RECURSIVE SplitNames(_, _, _)
SplitNames(text, i, name) ==
    IF i > Len(text) THEN <<name>>
    ELSE IF text[i] = "/" THEN <<name>> \o SplitNames(text, i + 1, <<>>)
    ELSE SplitNames(text, i + 1, Append(name, text[i]))

\* filepath.Join(outputDir, text): the path below outputDir, cleaned, so an
\* empty name (a doubled or trailing separator, or an empty text) is dropped
Join(text) ==
    LET NonEmpty(name) == name # <<>>
    IN  SelectSeq(SplitNames(text, 1, <<>>), NonEmpty)

\* outputFilename of encryptDirectory (400)
EncryptDest(path) == Join(RelText(path) \o EncryptedExtension)

\* outputFilename of decryptDirectory (575)
DecryptDest(path, ext) == Join(TrimSuffix(RelText(path), ext))

Dest(e) ==
    IF mode = "encrypt" THEN EncryptDest(e.path) ELSE DecryptDest(e.path, encryptedExt)

(***************************************************************************)
(* The output side of the file system: what each path at or below          *)
(* outputDir (the empty path) holds.                                       *)
(***************************************************************************)
Absent     == [kind |-> "absent",  src |-> 0]
DirEntry   == [kind |-> "dir",     src |-> 0]
OldFile    == [kind |-> "old",     src |-> 0]
Partial(i) == [kind |-> "partial", src |-> i]
Full(i)    == [kind |-> "full",    src |-> i]

Extensions == {EncryptedExtension, <<".", "p", "n", "g">>}

\* the directories os.MkdirAll(filepath.Dir(outputFilename)) has to find or make
Ancestors(d) == {SubSeq(d, 1, n) : n \in 0..(Len(d) - 1)}

OutPaths ==
    LET dests == {EncryptDest(Universe[i].path) : i \in FileSlots}
                 \cup {DecryptDest(Universe[i].path, ext) : i \in FileSlots, ext \in Extensions}
    IN  dests \cup UNION {Ancestors(d) : d \in dests}

MkdirAllOk(f, d) == \A p \in Ancestors(d) : f[p].kind \in {"absent", "dir"}

MkdirAll(f, d) == [p \in DOMAIN f |-> IF p \in Ancestors(d) THEN DirEntry ELSE f[p]]

\* os.Stat(outputFilename) returns no error
StatOk(f, d) == f[d].kind # "absent" /\ \A p \in Ancestors(d) : f[p].kind = "dir"

\* os.Create / ioutil.WriteFile can open the destination
CreateOk(f, d) == f[d].kind # "dir"

ItemFaults == {"none", "read", "transform", "mkdir", "create", "write"}

\* the early return of encryptFile and decryptFile (337-341, 513-517)
SkipsNever(exists) == FALSE

Skips(exists) == exists /\ ~overwrite

\* the rest of encryptFile (344-378) or decryptFile (519-553) for entry i with
\* destination d on file system f: the new file system and the error returned
ProcessFile(f, i, d, fault) ==
    IF fault = "read" THEN [fs |-> f, err |-> "read input failed"]
    ELSE IF fault = "transform" THEN [fs |-> f, err |-> "transform failed"]
    ELSE IF fault = "mkdir" \/ ~MkdirAllOk(f, d) THEN [fs |-> f, err |-> "create output directory failed"]
    ELSE LET g == MkdirAll(f, d)
         IN  IF fault = "create" \/ ~CreateOk(g, d) THEN [fs |-> g, err |-> "write output failed"]
             ELSE IF fault = "write" THEN [fs |-> [g EXCEPT ![d] = Partial(i)], err |-> "write output failed"]
             ELSE [fs |-> [g EXCEPT ![d] = Full(i)], err |-> ""]

\* a goroutine at its start (401-411, 576-585)
Started(d) ==
    [pc |-> "running", dst |-> d, before |-> Absent, read |-> FALSE, fault |-> "",
     err |-> ""]

Running == {i \in DOMAIN workers : workers[i].pc \in {"running", "checked"}}

InFlight == Cardinality(Running)

ErrWalk == "walk error"

\* what the callback returns to filepath.Walk for entry e (384-386, 559-561)
CallbackSwallowsError(e) == ""

CallbackError(e) == IF e.bad THEN ErrWalk ELSE ""

\* the callback answers filepath.SkipDir for entry e (388-390, 563-565)
SkipsDirNever(e) == FALSE

SkipsDir(e) == e.isDir /\ e.path # <<>> /\ ~recursive

\* wg.Wait() (415, 589) has let the run go on
WaitSkipped == TRUE

WaitDone == Running = {}

\* the file systems a run may start on: no outputDir, an empty outputDir, or
\* an outputDir that holds an earlier output at the destination of one file
StartFs ==
    LET none    == [p \in OutPaths |-> Absent]
        empty   == [none EXCEPT ![<<>>] = DirEntry]
        old(d)  == [MkdirAll(empty, d) EXCEPT ![d] = OldFile]
        files   == {m \in 1..Len(tree) : ~tree[m].isDir /\ Dest(tree[m]) # <<>>}
    IN  {none, empty} \cup {old(Dest(tree[n])) : n \in files}

(***************************************************************************)
(* SpecBatch: one run of encryptDirectory or decryptDirectory              *)
(***************************************************************************)
InitBatch ==
    /\ CipherIdle /\ NonceIdle /\ StegoIdle /\ CmdIdle
    /\ mode \in {"encrypt", "decrypt"}
    /\ encryptedExt \in (IF mode = "encrypt" THEN {EncryptedExtension} ELSE Extensions)
    /\ recursive \in BOOLEAN
    /\ overwrite \in BOOLEAN
    /\ tree \in Trees
    /\ fs \in StartFs
    /\ walkPos = 1
    /\ walkErr = ""
    /\ workers = <<>>
    /\ batchRet = NoBatchRet

\* one call of the walk callback (383-414, 558-587)
WalkVisit ==
    /\ ~batchRet.made
    /\ walkPos <= Len(tree)
    /\ LET e == tree[walkPos]
       IN  IF CallbackError(e) # ""
           THEN /\ walkErr' = CallbackError(e)
                /\ walkPos' = Len(tree) + 1
                /\ UNCHANGED workers
           ELSE IF SkipsDir(e)
           THEN /\ walkPos' = AfterSubtree(walkPos, walkPos + 1)
                /\ UNCHANGED <<walkErr, workers>>
           ELSE IF Qualifies(e)
           THEN /\ workers' = (walkPos :> Started(Dest(e))) @@ workers
                /\ walkPos' = walkPos + 1
                /\ UNCHANGED walkErr
           ELSE /\ walkPos' = walkPos + 1
                /\ UNCHANGED <<walkErr, workers>>
    /\ UNCHANGED <<mode, encryptedExt, recursive, overwrite, tree, fs, batchRet,
                   cipherVars, nonceVars, stegoVars, cmdVars>>

\* a goroutine's os.Stat of its destination (337-341, 513-517): it returns
\* nil at once when the file is there and may not be overwritten
WorkerCheck(i) ==
    /\ i \in DOMAIN workers
    /\ workers[i].pc = "running"
    /\ LET w == workers[i]
       IN  workers' = [workers EXCEPT ![i] =
               [w EXCEPT !.pc = IF Skips(StatOk(fs, w.dst)) THEN "skipped" ELSE "checked",
                         !.before = fs[w.dst]]]
    /\ UNCHANGED <<mode, encryptedExt, recursive, overwrite, tree, fs, walkPos, walkErr,
                   batchRet, cipherVars, nonceVars, stegoVars, cmdVars>>

\* a goroutine ends (404-410, 578-584): encryptFile or decryptFile went on
\* from the check and returned, with an error that is logged or without
WorkerDone(i) ==
    /\ i \in DOMAIN workers
    /\ workers[i].pc = "checked"
    /\ \E fault \in ItemFaults :
         LET w == workers[i]
             r == ProcessFile(fs, i, w.dst, fault)
         IN  /\ fs' = r.fs
             /\ workers' = [workers EXCEPT ![i] =
                    [w EXCEPT !.pc = IF r.err = "" THEN "done" ELSE "failed",
                              !.read = TRUE, !.fault = fault, !.err = r.err]]
    /\ UNCHANGED <<mode, encryptedExt, recursive, overwrite, tree, walkPos, walkErr,
                   batchRet, cipherVars, nonceVars, stegoVars, cmdVars>>

\* wg.Wait() lets the run go on and it returns (415-422, 589-595)
BatchReturn ==
    /\ ~batchRet.made
    /\ walkPos > Len(tree)
    /\ WaitDone
    /\ batchRet' = [made |-> TRUE, err |-> walkErr]
    /\ UNCHANGED <<mode, encryptedExt, recursive, overwrite, tree, fs, walkPos, walkErr,
                   workers, cipherVars, nonceVars, stegoVars, cmdVars>>

NextBatch ==
    \/ WalkVisit
    \/ \E i \in 1..Len(Universe) : WorkerCheck(i)
    \/ \E i \in 1..Len(Universe) : WorkerDone(i)
    \/ BatchReturn

SpecBatch == InitBatch /\ [][NextBatch]_vars

\* C10 as claimed: the goroutines in flight never exceed a maximum that is
\* fixed whatever the number of qualifying files, so for trees of up to
\* MaxFiles files some maximum below MaxFiles is never exceeded.
C10_InFlightBounded == \E cap \in 1..(MaxFiles - 1) : InFlight <= cap

(***************************************************************************)
(* Claims about the fan-out                                                *)
(***************************************************************************)
Finished(w) == w.pc \in {"skipped", "done", "failed"}

\* the entries filepath.Walk hands to the callback when nothing stops it:
\* inputDir, what lies directly in it, and with --recursive everything below
Enumerable(n) == recursive \/ Len(tree[n].path) <= 1

\* the entries whose visit makes the callback return an error
BadVisited == {n \in 1..Len(tree) : tree[n].bad /\ Enumerable(n)}

\* the entries the callback has been called for and has not refused
Enumerated(n) ==
    /\ n < walkPos
    /\ Enumerable(n)
    /\ \A b \in BadVisited : n < b

\* C11: a batch run returns, with nil or with the walk's error, only when
\* the walk is over, so that no goroutine can still be started, and no
\* goroutine it started is still running.
C11_ReturnsAfterWorkers ==
    batchRet.made => (walkPos > Len(tree) /\ Running = {})

C11_Witness ==
    /\ batchRet.made
    /\ batchRet.err = ErrWalk
    /\ \E i \in DOMAIN workers : workers[i].pc = "done"

\* C13: once the callback has been called for an unreadable entry the run
\* returns the walk's error, never nil, and no entry after it has been
\* enumerated: no goroutine exists for an entry after the unreadable one.
C13_WalkErrorReturned ==
    \A b \in BadVisited :
        /\ \A i \in DOMAIN workers : i < b
        /\ batchRet.made => batchRet.err = ErrWalk
        /\ walkPos > b => walkErr = ErrWalk

C13_Witness ==
    /\ batchRet.made
    /\ batchRet.err = ErrWalk
    /\ \E b \in BadVisited : \E n \in (b + 1)..Len(tree) :
           Enumerable(n) /\ Qualifies(tree[n]) /\ n \notin DOMAIN workers

C15_StartedIffQualifies ==
    \A n \in 1..Len(tree) :
        Enumerated(n) =>
            (n \in DOMAIN workers <=>
                /\ ~tree[n].isDir
                /\ mode = "encrypt" => tree[n].image
                /\ mode = "decrypt" => HasSuffix(BaseName(tree[n].path), encryptedExt))

C15_Witness ==
    /\ mode = "encrypt"
    /\ \E i \in DOMAIN workers : HasSuffix(BaseName(tree[i].path), EncryptedExtension)
    /\ \E n \in 1..Len(tree) :
           /\ Enumerated(n) /\ ~tree[n].isDir /\ n \notin DOMAIN workers
           /\ BaseName(tree[n].path) = <<"a", ".", "p", "n", "g">>

\* C16 as claimed: a goroutine's destination keeps the directory part of
\* the source's relative path and has the source's name with the suffix
\* added (encrypt) or taken away (decrypt), and the decrypt mapping undoes
\* the encrypt mapping on every file's relative path.
C16_DestinationMapping ==
    /\ \A i \in DOMAIN workers :
           LET r == tree[i].path
               d == workers[i].dst
           IN  /\ Len(d) = Len(r)
               /\ SubSeq(d, 1, Len(d) - 1) = SubSeq(r, 1, Len(r) - 1)
               /\ mode = "encrypt" => BaseName(d) = BaseName(r) \o EncryptedExtension
               /\ mode = "decrypt" => BaseName(d) \o encryptedExt = BaseName(r)
    /\ \A n \in 1..Len(tree) :
           ~tree[n].isDir =>
               DecryptDest(EncryptDest(tree[n].path), EncryptedExtension) = tree[n].path

\* C17: a goroutine is skipped exactly if os.Stat found its destination and
\* --overwrite is not set; a skipped goroutine has no error, has not read
\* its input and leaves the destination as it found it, and the run returns
\* with every other goroutine finished.
C17_SkipExisting ==
    /\ \A i \in DOMAIN workers :
           LET w == workers[i]
           IN  /\ w.pc # "running" =>
                      (w.pc = "skipped" <=> (w.before.kind # "absent" /\ ~overwrite))
               /\ w.pc = "skipped" =>
                      (w.err = "" /\ ~w.read /\ fs[w.dst] = w.before)
    /\ batchRet.made => \A i \in DOMAIN workers : Finished(workers[i])

C17_Witness ==
    /\ batchRet.made
    /\ \E i \in DOMAIN workers : workers[i].pc = "skipped" /\ workers[i].before = OldFile
    /\ \E j \in DOMAIN workers : workers[j].pc = "done" /\ fs[workers[j].dst] = Full(j)

\* C18 as claimed: when a goroutine has ended, its destination holds its
\* complete output or what it held when the goroutine looked at it.
C18_NoPartialOutput ==
    \A i \in DOMAIN workers :
        Finished(workers[i]) =>
            (fs[workers[i].dst] = Full(i) \/ fs[workers[i].dst] = workers[i].before)

\* C12 as claimed: when a run whose walk met no error has returned, it
\* returned nil, every goroutine has ended, a goroutine failed only on a
\* fault of its own item, and every goroutine that succeeded has its
\* complete output at its destination.
C12_ItemsIsolated ==
    (batchRet.made /\ walkErr = "") =>
        /\ batchRet.err = ""
        /\ \A i \in DOMAIN workers :
               LET w == workers[i]
               IN  /\ Finished(w)
                   /\ w.pc = "failed" => w.fault # "none"
                   /\ w.pc = "done" => fs[w.dst] = Full(i)

(***************************************************************************)
(* Claims about the hide loop                                              *)
(***************************************************************************)
\* C20: for a message that fits, pixel i in row-major order, for i from 0 to
\* len(M), has in the low bits of R, G, B, A the bits 7, 6, 5, 4 of byte i
\* of M followed by NUL, and keeps the upper seven bits of each channel.
C20_BitsEmbedded ==
    (hidden.made /\ Fits) =>
        \A y \in 0..(carrier.h - 1) : \A x \in 0..(carrier.w - 1) :
            LET i == y * carrier.w + x
                c == IF i < Len(message) THEN message[i + 1] ELSE 0
                Carries(v, u, bit) == v % 2 = bit /\ v \div 2 = u \div 2
                p == At(hidden.img, x, y)
                q == At(carrier, x, y)
            IN  i <= Len(message) =>
                    /\ Carries(p.r, q.r, BitAt(c, 7))
                    /\ Carries(p.g, q.g, BitAt(c, 6))
                    /\ Carries(p.b, q.b, BitAt(c, 5))
                    /\ Carries(p.a, q.a, BitAt(c, 4))

\* the example: a 2x1 image and the message "A" (0x41)
C20_Witness ==
    /\ hidden.made
    /\ carrier.w = 2 /\ carrier.h = 1
    /\ message = <<65>>
    /\ LET p == At(hidden.img, 0, 0)
           q == At(hidden.img, 1, 0)
       IN  /\ <<p.r % 2, p.g % 2, p.b % 2, p.a % 2>> = <<0, 1, 0, 0>>
           /\ <<q.r % 2, q.g % 2, q.b % 2, q.a % 2>> = <<0, 0, 0, 0>>

(***************************************************************************)
(* SpecCmd: one "encrypt" or "decrypt" command, up to the call of the file *)
(* or directory function                                                   *)
(***************************************************************************)
InitCmd ==
    /\ CipherIdle /\ NonceIdle /\ StegoIdle /\ BatchIdle
    /\ cmd \in Commands
    /\ cmdRet = NoCmdRet

EncryptCmd ==
    /\ cmd.name = "encrypt"
    /\ ~cmdRet.made
    /\ \E gen \in KeyGenOutcomes : \E saved \in BOOLEAN :
           cmdRet' = encryptAction(cmd, gen, saved)
    /\ UNCHANGED <<cmd, cipherVars, nonceVars, stegoVars, batchVars>>

DecryptCmd ==
    /\ cmd.name = "decrypt"
    /\ ~cmdRet.made
    /\ cmdRet' = decryptAction(cmd)
    /\ UNCHANGED <<cmd, cipherVars, nonceVars, stegoVars, batchVars>>

NextCmd == EncryptCmd \/ DecryptCmd

SpecCmd == InitCmd /\ [][NextCmd]_vars

\* the key text the caller supplied: --key, or for "encrypt" without it
\* the environment's
SuppliedKey ==
    IF cmd.name = "encrypt" /\ cmd.keyFlag = <<>> THEN cmd.keyEnv ELSE cmd.keyFlag

KeySupplied == cmd.name = "decrypt" \/ SuppliedKey # <<>>

\* C19: a command given a key text goes on to its input, with the decoded
\* key, exactly if the text decodes without error to 32 bytes; otherwise
\* it returns an error having made no file-system call at all.
C19_KeyValidatedFirst ==
    (cmdRet.made /\ KeySupplied) =>
        LET d == DecodeString(SuppliedKey)
        IN  IF d.err = "" /\ Len(d.data) = 32
            THEN /\ cmdRet.log # <<>> /\ cmdRet.log[1] = "stat input"
                 /\ cmdRet.err = "" => cmdRet.key = d.data
            ELSE cmdRet.err # "" /\ cmdRet.log = <<>>

\* a key text that decodes, but to 16 bytes, is refused before the input
\* is looked at
C19_Witness ==
    /\ cmdRet.made
    /\ KeySupplied
    /\ DecodeString(SuppliedKey).err = ""
    /\ Len(DecodeString(SuppliedKey).data) = 16
    /\ cmdRet.err = "invalid key size"
    /\ cmdRet.log = <<>>
    /\ cmd.input = "dir"

(***************************************************************************)
(* Claims about what hide leaves alone and what reveal returns             *)
(***************************************************************************)
\* C21: every pixel at a row-major index greater than len(M), that is
\* beyond the message and its NUL, has in the buffer hide built the four
\* channels it has in the input buffer.
C21_RestUnchanged ==
    hidden.made =>
        \A y \in 0..(carrier.h - 1) : \A x \in 0..(carrier.w - 1) :
            (y * carrier.w + x > Len(message)) => At(hidden.img, x, y) = At(carrier, x, y)

\* a pixel beyond the NUL whose channels have low bits set
C21_Witness ==
    /\ hidden.made
    /\ Fits
    /\ Len(message) >= 1
    /\ \E y \in 0..(carrier.h - 1) : \E x \in 0..(carrier.w - 1) :
           /\ y * carrier.w + x > Len(message)
           /\ At(carrier, x, y).r % 2 = 1
           /\ At(hidden.img, x, y) = At(carrier, x, y)

\* C22: a reveal that could load its image returns no error and the bytes
\* (R_lsb<<7)|(G_lsb<<6)|(B_lsb<<5)|(A_lsb<<4) of all pixels in row-major
\* order up to the first byte that is NUL, all width*height of them when
\* none is.
C22_RevealScansAll ==
    (revealRet.made /\ revealRet.err = "") =>
        LET img   == IF stegoLog[Len(stegoLog)] = "reveal: open input"
                     THEN carrier ELSE PngToRGBA(outFile)
            lsb(v) == v % 2
            byte(i) ==
                LET p == At(img, (i - 1) % img.w, (i - 1) \div img.w)
                IN  lsb(p.r) * 128 + lsb(p.g) * 64 + lsb(p.b) * 32 + lsb(p.a) * 16
            n     == img.w * img.h
            nuls  == {i \in 1..n : byte(i) = 0}
            cut   == IF nuls = {} THEN n
                     ELSE (CHOOSE i \in nuls : \A j \in nuls : i <= j) - 1
        IN  revealRet.text = [i \in 1..cut |-> byte(i)]

\* a reveal of the output file that is cut at the NUL hide wrote, in an
\* image of two rows
C22_Witness ==
    /\ revealRet.made
    /\ revealRet.err = ""
    /\ stegoLog[Len(stegoLog)] = "reveal: open output"
    /\ carrier.h = 2 /\ carrier.w = 2
    /\ Len(revealRet.text) = 1

\* a reveal of an image without any NUL returns width*height bytes
C22_WitnessNoNul ==
    /\ revealRet.made
    /\ revealRet.err = ""
    /\ carrier.w * carrier.h >= 2
    /\ Len(revealRet.text) = carrier.w * carrier.h

\* C23 as claimed: no two goroutines of a run have the same destination.
C23_DistinctDestinations ==
    \A i \in DOMAIN workers : \A j \in DOMAIN workers :
        i # j => workers[i].dst # workers[j].dst

\* C24: when the buffer has at least len(M)+1 pixels, revealing the buffer
\* hide built gives the bytes of M with their low 4 bits cleared, up to
\* the first byte of M below 16; every byte of it is a multiple of 16, and
\* it is M exactly if every byte of M is a multiple of 16 and at least 16.
C24_RevealOfHide ==
    (hidden.made /\ Fits) =>
        LET small == {i \in 1..Len(message) : message[i] < 16}
            cut   == IF small = {} THEN Len(message)
                     ELSE (CHOOSE i \in small : \A j \in small : i <= j) - 1
            text  == RevealBuffer(hidden.img)
        IN  /\ text = [i \in 1..cut |-> message[i] - (message[i] % 16)]
            /\ \A i \in 1..Len(text) : text[i] % 16 = 0
            /\ (text = message) <=>
                   \A i \in 1..Len(message) : message[i] % 16 = 0 /\ message[i] >= 16

\* "A" followed by a byte below 16 comes back as "@"
C24_Witness ==
    /\ hidden.made
    /\ Fits
    /\ message = <<65, 5>>
    /\ RevealBuffer(hidden.img) = <<64>>

====
